---- MODULE Spec2Model ----
(***************************************************************************)
(* Model of value/fields.go: FieldList, an ordered list of (Name, Value)   *)
(* pairs with Sort, Compare, Less, Equals and the JSON codecs.             *)
(*                                                                         *)
(* Strings and byte slices are sequences of byte codes (naturals).         *)
(* A Field is a record [Name |-> <bytes>, Value |-> <value>].              *)
(* A FieldList is a sequence of Fields; the nil list is <<>>.              *)
(***************************************************************************)
EXTENDS Integers, Sequences, FiniteSets, TLC

VARIABLES
    f,        \* the receiver list
    rhs,      \* the argument list
    third,    \* a third list, for the three-list comparisons
    orig,     \* f as the caller built it, before any Sort
    rorig,    \* rhs as the caller built it, before any Sort
    prev,     \* f as it was when the last f.Sort() was called
    sorts,    \* number of f.Sort() calls so far
    rsorts,   \* number of rhs.Sort() calls so far
    op,       \* the last operation called
    cmpRet,   \* result of the last Compare
    boolRet,  \* result of the last Less / Equals
    w,        \* the JSON builder: the bytes written to it
    toRet,    \* what FieldListToJSON returned
    input,    \* the bytes handed to FieldListFromJSON
    fromRet   \* what FieldListFromJSON returned

vars == <<f, rhs, third, orig, rorig, prev, sorts, rsorts, op, cmpRet, boolRet,
          w, toRet, input, fromRet>>

(***************************************************************************)
(* Bounds of the model.                                                    *)
(***************************************************************************)
\* longest list handed to Compare / Equals / Less as f or rhs
MaxLen == 2
\* longest list handed to Sort
MaxSortLen == 3
\* longest list in the three-list comparisons
MaxOrdLen == 2
\* longest list handed to the JSON codecs
MaxJSONLen == 2
\* how many times the caller calls Sort on one list
MaxSorts == 2

(***************************************************************************)
(* Values: the external polymorphic Value, as a tagged variant.            *)
(***************************************************************************)
Null == [kind |-> "null", n |-> 0]

IntValue(n) == [kind |-> "int", n |-> n]

\* a value the JSON builder cannot emit (WriteJSON returns an error)
Unsupported == [kind |-> "unsupported", n |-> 0]

Values == {IntValue(1), IntValue(2), Null}

\* fixed rank of the variants
Rank(v) == CASE v.kind = "int" -> 0
             [] v.kind = "null" -> 1
             [] OTHER -> 2

IntCompare(a, b) == IF a < b THEN -1 ELSE IF a > b THEN 1 ELSE 0

\* value.Compare: variants by rank, same variant by payload
ValueCompare(a, b) ==
    IF Rank(a) # Rank(b) THEN IntCompare(Rank(a), Rank(b))
    ELSE IF a.kind = "int" THEN IntCompare(a.n, b.n)
    ELSE 0

\* value.Equals: same variant and same payload
ValueEquals(a, b) ==
    /\ a.kind = b.kind
    /\ a.kind = "int" => a.n = b.n

(***************************************************************************)
(* Names: Go strings, as byte sequences.  "a", "a\"", "b"                  *)
(***************************************************************************)
Names == {<<97>>, <<97, 34>>, <<98>>}

RECURSIVE StringCompareFrom(_, _, _)
StringCompareFrom(a, b, i) ==
    IF i > Len(a) /\ i > Len(b) THEN 0
    ELSE IF i > Len(a) THEN -1
    ELSE IF i > Len(b) THEN 1
    ELSE IF a[i] < b[i] THEN -1
    ELSE IF a[i] > b[i] THEN 1
    ELSE StringCompareFrom(a, b, i + 1)

\* strings.Compare: byte-wise lexicographic three-way comparison
StringCompare(a, b) == StringCompareFrom(a, b, 1)

\* the Go operator < on strings
StringLess(a, b) == StringCompare(a, b) < 0

Field(name, value) == [Name |-> name, Value |-> value]

Fields == {Field(nm, v) : nm \in Names, v \in Values}

\* all sequences over S of length at most n
SeqUpTo(S, n) == UNION {[1..k -> S] : k \in 0..n}

(***************************************************************************)
(* Sort                                                                    *)
(***************************************************************************)
Swap(s, i, j) == [s EXCEPT ![i] = s[j], ![j] = s[i]]

\* the less function with <= in place of <
lessOrEqual(s, i, j) == ~StringLess(s[j].Name, s[i].Name)

\* the less function handed to sort.SliceStable
less(s, i, j) == StringLess(s[i].Name, s[j].Name)

\* inner loop of the insertion sort: sink element j while it is less than
\* its left neighbour
RECURSIVE InsertionSink(_, _)
InsertionSink(s, j) ==
    IF j > 1 /\ less(s, j, j - 1)
    THEN InsertionSink(Swap(s, j, j - 1), j - 1)
    ELSE s

RECURSIVE InsertionSortFrom(_, _)
InsertionSortFrom(s, i) ==
    IF i > Len(s) THEN s
    ELSE InsertionSortFrom(InsertionSink(s, i), i + 1)

\* sort.SliceStable on a slice shorter than its block size (20): a plain
\* insertion sort
SliceStable(s) == InsertionSortFrom(s, 2)

\* Sort with the two-element branch swapping unless the pair is strictly
\* ascending
SortSwapOnTie(s) ==
    IF Len(s) < 2 THEN s
    ELSE IF Len(s) = 2
         THEN IF ~StringLess(s[1].Name, s[2].Name) THEN Swap(s, 1, 2) ELSE s
    ELSE SliceStable(s)

\* Sort returning early for every list shorter than three
SortSkipsTwo(s) ==
    IF Len(s) <= 2 THEN s
    ELSE SliceStable(s)

\* FieldList.Sort
Sort(s) ==
    IF Len(s) < 2 THEN s
    ELSE IF Len(s) = 2
         THEN IF StringLess(s[2].Name, s[1].Name) THEN Swap(s, 1, 2) ELSE s
    ELSE SliceStable(s)

(***************************************************************************)
(* Compare, Less, Equals                                                   *)
(***************************************************************************)
\* Compare answering -1 for every value difference
RECURSIVE CompareFromValueSign(_, _, _)
CompareFromValueSign(a, b, i) ==
    IF i > Len(a) /\ i > Len(b) THEN 0
    ELSE IF i > Len(a) THEN -1
    ELSE IF i > Len(b) THEN 1
    ELSE IF StringCompare(a[i].Name, b[i].Name) # 0
         THEN StringCompare(a[i].Name, b[i].Name)
    ELSE IF ValueCompare(a[i].Value, b[i].Value) # 0
         THEN -1
    ELSE CompareFromValueSign(a, b, i + 1)

\* Compare with the two length answers exchanged
RECURSIVE CompareFromLongerFirst(_, _, _)
CompareFromLongerFirst(a, b, i) ==
    IF i > Len(a) /\ i > Len(b) THEN 0
    ELSE IF i > Len(a) THEN 1
    ELSE IF i > Len(b) THEN -1
    ELSE IF StringCompare(a[i].Name, b[i].Name) # 0
         THEN StringCompare(a[i].Name, b[i].Name)
    ELSE IF ValueCompare(a[i].Value, b[i].Value) # 0
         THEN ValueCompare(a[i].Value, b[i].Value)
    ELSE CompareFromLongerFirst(a, b, i + 1)

\* Compare answering -1 whichever list is exhausted first
RECURSIVE CompareFromExhausted(_, _, _)
CompareFromExhausted(a, b, i) ==
    IF i > Len(a) /\ i > Len(b) THEN 0
    ELSE IF i > Len(a) THEN -1
    ELSE IF i > Len(b) THEN -1
    ELSE IF StringCompare(a[i].Name, b[i].Name) # 0
         THEN StringCompare(a[i].Name, b[i].Name)
    ELSE IF ValueCompare(a[i].Value, b[i].Value) # 0
         THEN ValueCompare(a[i].Value, b[i].Value)
    ELSE CompareFromExhausted(a, b, i + 1)

RECURSIVE CompareFrom(_, _, _)
CompareFrom(a, b, i) ==
    IF i > Len(a) /\ i > Len(b) THEN 0
    ELSE IF i > Len(a) THEN -1
    ELSE IF i > Len(b) THEN 1
    ELSE IF StringCompare(a[i].Name, b[i].Name) # 0
         THEN StringCompare(a[i].Name, b[i].Name)
    ELSE IF ValueCompare(a[i].Value, b[i].Value) # 0
         THEN ValueCompare(a[i].Value, b[i].Value)
    ELSE CompareFrom(a, b, i + 1)

\* FieldList.Compare
Compare(a, b) == CompareFrom(a, b, 1)

\* FieldList.Less
Less(a, b) == Compare(a, b) = -1

\* Equals without the check of the values
RECURSIVE EqualsFromNamesOnly(_, _, _)
EqualsFromNamesOnly(a, b, i) ==
    IF i > Len(a) THEN TRUE
    ELSE IF a[i].Name # b[i].Name THEN FALSE
    ELSE EqualsFromNamesOnly(a, b, i + 1)

RECURSIVE EqualsFrom(_, _, _)
EqualsFrom(a, b, i) ==
    IF i > Len(a) THEN TRUE
    ELSE IF a[i].Name # b[i].Name THEN FALSE
    ELSE IF ~ValueEquals(a[i].Value, b[i].Value) THEN FALSE
    ELSE EqualsFrom(a, b, i + 1)

\* FieldList.Equals
Equals(a, b) ==
    IF Len(a) # Len(b) THEN FALSE
    ELSE EqualsFrom(a, b, 1)

(***************************************************************************)
(* The JSON builder (builder.JSONBuilder): WriteByte and WriteJSON.        *)
(* Bytes: '{' 123, '}' 125, ':' 58, ',' 44, '"' 34, '\' 92.                *)
(***************************************************************************)
RECURSIVE Escape(_)
Escape(str) ==
    IF str = <<>> THEN <<>>
    ELSE IF Head(str) \in {34, 92} THEN <<92, Head(str)>> \o Escape(Tail(str))
    ELSE <<Head(str)>> \o Escape(Tail(str))

\* a Go string as a JSON string
EncodeString(str) == <<34>> \o Escape(str) \o <<34>>

\* a value as JSON text
EncodeValue(v) ==
    IF v.kind = "null" THEN <<110, 117, 108, 108>>
    ELSE <<48 + v.n>>

\* the Go string str as the interface{} handed to WriteJSON
JSONString(str) == [kind |-> "string", n |-> 0, str |-> str]

\* Value.Unstructured: the plain form of a value
Unstructured(v) == [kind |-> v.kind, n |-> v.n]

WriteByte(buf, c) == Append(buf, c)

\* WriteJSON: the builder after the call, and the error returned
WriteJSON(buf, x) ==
    IF x.kind = "string" THEN [w |-> buf \o EncodeString(x.str), err |-> "nil"]
    ELSE IF x.kind \in {"null", "int"} THEN [w |-> buf \o EncodeValue(x), err |-> "nil"]
    ELSE [w |-> buf, err |-> "unsupported value"]

\* the loop of FieldListToJSON writing a ',' after every member
RECURSIVE ToJSONLoopTrailingComma(_, _, _)
ToJSONLoopTrailingComma(v, buf, i) ==
    IF i > Len(v) THEN [w |-> WriteByte(buf, 125), err |-> "nil"]
    ELSE LET k == WriteJSON(buf, JSONString(v[i].Name))
             c == WriteByte(k.w, 58)
             x == WriteJSON(c, Unstructured(v[i].Value))
         IN  IF k.err # "nil" THEN k
             ELSE IF x.err # "nil" THEN x
             ELSE ToJSONLoopTrailingComma(v, IF i < Len(v) + 1 THEN WriteByte(x.w, 44) ELSE x.w, i + 1)

\* the loop of FieldListToJSON from member i on
RECURSIVE ToJSONLoop(_, _, _)
ToJSONLoop(v, buf, i) ==
    IF i > Len(v) THEN [w |-> WriteByte(buf, 125), err |-> "nil"]
    ELSE LET k == WriteJSON(buf, JSONString(v[i].Name))
             c == WriteByte(k.w, 58)
             x == WriteJSON(c, Unstructured(v[i].Value))
         IN  IF k.err # "nil" THEN k
             ELSE IF x.err # "nil" THEN x
             ELSE ToJSONLoop(v, IF i < Len(v) THEN WriteByte(x.w, 44) ELSE x.w, i + 1)

\* FieldListToJSON: the builder after the call, and the error returned
FieldListToJSON(v, buf) == ToJSONLoop(v, WriteByte(buf, 123), 1)

(***************************************************************************)
(* The object parser (builder.NewFastObjParser): Parse returns the raw     *)
(* key, then the raw value, of each member in turn, and io.EOF at the end. *)
(***************************************************************************)
NewFastObjParser(in) == [in |-> in, pos |-> 1, mode |-> "start"]

ParseEOF(p) == [tok |-> <<>>, err |-> "EOF", p |-> p]

ParseError(p) == [tok |-> <<>>, err |-> "syntax error", p |-> p]

\* index of the quote closing the string whose content starts at i; 0 if
\* the input ends first
RECURSIVE StringEnd(_, _)
StringEnd(in, i) ==
    IF i > Len(in) THEN 0
    ELSE IF in[i] = 92 THEN StringEnd(in, i + 2)
    ELSE IF in[i] = 34 THEN i
    ELSE StringEnd(in, i + 1)

\* index of the last byte of the scalar that starts at i
RECURSIVE ScalarEnd(_, _)
ScalarEnd(in, i) ==
    IF i > Len(in) \/ in[i] \in {44, 125} THEN i - 1
    ELSE ScalarEnd(in, i + 1)

ParseKey(p) ==
    IF p.pos > Len(p.in) THEN ParseEOF(p)
    ELSE IF p.in[p.pos] = 125 THEN ParseEOF(p)
    ELSE IF p.in[p.pos] # 34 THEN ParseError(p)
    ELSE LET e == StringEnd(p.in, p.pos + 1)
         IN  IF e = 0 THEN ParseError(p)
             ELSE [tok |-> SubSeq(p.in, p.pos, e), err |-> "nil",
                   p |-> [p EXCEPT !.pos = e + 1, !.mode = "value"]]

ParseValue(p) ==
    IF p.pos > Len(p.in) THEN ParseEOF(p)
    ELSE IF p.in[p.pos] # 58 THEN ParseError(p)
    ELSE IF p.pos + 1 > Len(p.in) THEN ParseEOF(p)
    ELSE LET e == ScalarEnd(p.in, p.pos + 1)
             next == IF e + 1 <= Len(p.in) /\ p.in[e + 1] = 44 THEN e + 2 ELSE e + 1
         IN  IF e < p.pos + 1 THEN ParseError(p)
             ELSE [tok |-> SubSeq(p.in, p.pos + 1, e), err |-> "nil",
                   p |-> [p EXCEPT !.pos = next, !.mode = "key"]]

\* parser.Parse: the raw token, the error, and the parser after the call
Parse(p) ==
    IF p.mode = "value" THEN ParseValue(p)
    ELSE IF p.mode = "key" THEN ParseKey(p)
    ELSE IF p.pos > Len(p.in) THEN ParseEOF(p)
    ELSE IF p.in[p.pos] # 123 THEN ParseError(p)
    ELSE ParseKey([p EXCEPT !.pos = p.pos + 1, !.mode = "key"])

RECURSIVE EscapesValid(_)
EscapesValid(body) ==
    IF body = <<>> THEN TRUE
    ELSE IF Head(body) = 92
         THEN /\ Len(body) >= 2
              /\ body[2] \in {34, 92}
              /\ EscapesValid(Tail(Tail(body)))
    ELSE EscapesValid(Tail(body))

RECURSIVE Unescape(_)
Unescape(body) ==
    IF body = <<>> THEN <<>>
    ELSE IF Head(body) = 92 THEN <<body[2]>> \o Unescape(Tail(Tail(body)))
    ELSE <<Head(body)>> \o Unescape(Tail(body))

\* builder.UnmarshalString: the string of a raw JSON string token
UnmarshalString(raw) ==
    LET body == SubSeq(raw, 2, Len(raw) - 1)
    IN  IF Len(raw) >= 2 /\ raw[1] = 34 /\ raw[Len(raw)] = 34 /\ EscapesValid(body)
        THEN [val |-> Unescape(body), err |-> "nil"]
        ELSE [val |-> <<>>, err |-> "invalid string"]

\* builder.UnmarshalInterface: the generic form of a raw JSON value token
UnmarshalInterface(raw) ==
    IF raw = <<110, 117, 108, 108>> THEN [val |-> [kind |-> "null", n |-> 0], err |-> "nil"]
    ELSE IF Len(raw) = 1 /\ raw[1] \in 48..57
         THEN [val |-> [kind |-> "int", n |-> raw[1] - 48], err |-> "nil"]
    ELSE [val |-> [kind |-> "null", n |-> 0], err |-> "invalid value"]

\* NewValueInterface: the Value wrapping a generic form
NewValueInterface(v) == IF v.kind = "int" THEN IntValue(v.n) ELSE Null

(***************************************************************************)
(* FieldListFromJSON.  The result carries, next to the list and the error  *)
(* returned, how many fields had been appended when the function returned  *)
(* and which call gave which signal in the last iteration.                 *)
(***************************************************************************)
FromJSONReturn(fields, err, appended, at, signal) ==
    [fields |-> fields, err |-> err, appended |-> appended,
     at |-> at, signal |-> signal]

\* the loop of FieldListFromJSON returning the fields built so far next to
\* its errors
RECURSIVE FromJSONLoopPartial(_, _)
FromJSONLoopPartial(parser, fields) ==
    LET rawKey == Parse(parser)
        rawValue == Parse(rawKey.p)
        k == UnmarshalString(rawKey.tok)
        v == UnmarshalInterface(rawValue.tok)
        n == Len(fields)
    IN  IF rawKey.err = "EOF" THEN FromJSONReturn(fields, "nil", n, "key", "EOF")
        ELSE IF rawKey.err # "nil" THEN FromJSONReturn(fields, "parsing JSON", n, "key", rawKey.err)
        ELSE IF rawValue.err = "EOF" THEN FromJSONReturn(fields, "unexpected EOF", n, "value", "EOF")
        ELSE IF rawValue.err # "nil" THEN FromJSONReturn(fields, "parsing JSON", n, "value", rawValue.err)
        ELSE IF k.err # "nil" THEN FromJSONReturn(fields, "parsing JSON", n, "UnmarshalString", k.err)
        ELSE IF v.err # "nil" THEN FromJSONReturn(fields, "parsing JSON", n, "UnmarshalInterface", v.err)
        ELSE FromJSONLoopPartial(rawValue.p, Append(fields, Field(k.val, NewValueInterface(v.val))))

\* the loop of FieldListFromJSON putting each new field in front
RECURSIVE FromJSONLoopPrepend(_, _)
FromJSONLoopPrepend(parser, fields) ==
    LET rawKey == Parse(parser)
        rawValue == Parse(rawKey.p)
        k == UnmarshalString(rawKey.tok)
        v == UnmarshalInterface(rawValue.tok)
        n == Len(fields)
    IN  IF rawKey.err = "EOF" THEN FromJSONReturn(fields, "nil", n, "key", "EOF")
        ELSE IF rawKey.err # "nil" THEN FromJSONReturn(<<>>, "parsing JSON", n, "key", rawKey.err)
        ELSE IF rawValue.err = "EOF" THEN FromJSONReturn(<<>>, "unexpected EOF", n, "value", "EOF")
        ELSE IF rawValue.err # "nil" THEN FromJSONReturn(<<>>, "parsing JSON", n, "value", rawValue.err)
        ELSE IF k.err # "nil" THEN FromJSONReturn(<<>>, "parsing JSON", n, "UnmarshalString", k.err)
        ELSE IF v.err # "nil" THEN FromJSONReturn(<<>>, "parsing JSON", n, "UnmarshalInterface", v.err)
        ELSE FromJSONLoopPrepend(rawValue.p, <<Field(k.val, NewValueInterface(v.val))>> \o fields)

\* the loop of FieldListFromJSON, entered with the fields appended so far
RECURSIVE FromJSONLoop(_, _)
FromJSONLoop(parser, fields) ==
    LET rawKey == Parse(parser)
        rawValue == Parse(rawKey.p)
        k == UnmarshalString(rawKey.tok)
        v == UnmarshalInterface(rawValue.tok)
        n == Len(fields)
    IN  IF rawKey.err = "EOF" THEN FromJSONReturn(fields, "nil", n, "key", "EOF")
        ELSE IF rawKey.err # "nil" THEN FromJSONReturn(<<>>, "parsing JSON", n, "key", rawKey.err)
        ELSE IF rawValue.err = "EOF" THEN FromJSONReturn(<<>>, "unexpected EOF", n, "value", "EOF")
        ELSE IF rawValue.err # "nil" THEN FromJSONReturn(<<>>, "parsing JSON", n, "value", rawValue.err)
        ELSE IF k.err # "nil" THEN FromJSONReturn(<<>>, "parsing JSON", n, "UnmarshalString", k.err)
        ELSE IF v.err # "nil" THEN FromJSONReturn(<<>>, "parsing JSON", n, "UnmarshalInterface", v.err)
        ELSE FromJSONLoop(rawValue.p, Append(fields, Field(k.val, NewValueInterface(v.val))))

FieldListFromJSON(in) == FromJSONLoop(NewFastObjParser(in), <<>>)

(***************************************************************************)
(* State machine: a caller holding lists and calling the operations.       *)
(***************************************************************************)
\* fromRet before FieldListFromJSON is called
NoResult == [fields |-> <<>>, err |-> "nil", appended |-> 0,
             at |-> "none", signal |-> "nil"]

\* everything but the lists, as it is before the first call
InitRest ==
    /\ orig = f
    /\ rorig = rhs
    /\ prev = f
    /\ sorts = 0
    /\ rsorts = 0
    /\ op = "init"
    /\ cmpRet = 0
    /\ boolRet = FALSE
    /\ w = <<>>
    /\ toRet = "not called"
    /\ input = <<>>
    /\ fromRet = NoResult

\* f.Sort()
DoSort ==
    /\ sorts < MaxSorts
    /\ prev' = f
    /\ f' = Sort(f)
    /\ sorts' = sorts + 1
    /\ op' = "Sort"
    /\ UNCHANGED <<rhs, third, orig, rorig, rsorts, cmpRet, boolRet, w, toRet, input, fromRet>>

\* rhs.Sort()
DoSortRhs ==
    /\ rsorts < MaxSorts
    /\ rhs' = Sort(rhs)
    /\ rsorts' = rsorts + 1
    /\ op' = "SortRhs"
    /\ UNCHANGED <<f, third, orig, rorig, prev, sorts, cmpRet, boolRet, w, toRet, input, fromRet>>

\* f.Compare(rhs)
DoCompare ==
    /\ op' = "Compare"
    /\ cmpRet' = Compare(f, rhs)
    /\ UNCHANGED <<f, rhs, third, orig, rorig, prev, sorts, rsorts, boolRet, w, toRet, input, fromRet>>

\* f.Less(rhs)
DoLess ==
    /\ op' = "Less"
    /\ boolRet' = Less(f, rhs)
    /\ UNCHANGED <<f, rhs, third, orig, rorig, prev, sorts, rsorts, cmpRet, w, toRet, input, fromRet>>

\* f.Equals(rhs)
DoEquals ==
    /\ op' = "Equals"
    /\ boolRet' = Equals(f, rhs)
    /\ UNCHANGED <<f, rhs, third, orig, rorig, prev, sorts, rsorts, cmpRet, w, toRet, input, fromRet>>

\* f.Compare(third)
DoCompareThird ==
    /\ op' = "CompareThird"
    /\ cmpRet' = Compare(f, third)
    /\ UNCHANGED <<f, rhs, third, orig, rorig, prev, sorts, rsorts, boolRet, w, toRet, input, fromRet>>

\* f.Less(third)
DoLessThird ==
    /\ op' = "LessThird"
    /\ boolRet' = Less(f, third)
    /\ UNCHANGED <<f, rhs, third, orig, rorig, prev, sorts, rsorts, cmpRet, w, toRet, input, fromRet>>

\* FieldListToJSON(f, w); the caller encodes once, into a fresh builder
DoToJSON ==
    /\ toRet = "not called"
    /\ LET r == FieldListToJSON(f, w)
       IN  /\ w' = r.w
           /\ toRet' = r.err
    /\ op' = "ToJSON"
    /\ UNCHANGED <<f, rhs, third, orig, rorig, prev, sorts, rsorts, cmpRet, boolRet, input, fromRet>>

\* the byte 'x', which starts no JSON token
Garbage == {120}

\* the documents a caller makes of the bytes b: b itself, b cut short, and
\* b with one byte overwritten
Documents(b) ==
    {SubSeq(b, 1, n) : n \in 0..Len(b)}
        \cup {[b EXCEPT ![i] = c] : i \in 1..Len(b), c \in Garbage}

\* FieldListFromJSON(in); the caller does not decode twice in a row
DoFromJSON ==
    /\ op # "FromJSON"
    /\ \E in \in Documents(w) :
          /\ input' = in
          /\ fromRet' = FieldListFromJSON(in)
    /\ op' = "FromJSON"
    /\ UNCHANGED <<f, rhs, third, orig, rorig, prev, sorts, rsorts, cmpRet, boolRet, w, toRet>>

(***************************************************************************)
(* Spec: two arbitrary lists, compared.                                    *)
(***************************************************************************)
InitCompare ==
    /\ f \in SeqUpTo(Fields, MaxLen)
    /\ rhs \in SeqUpTo(Fields, MaxLen)
    /\ third = <<>>
    /\ InitRest

NextCompare == DoCompare \/ DoLess \/ DoEquals

Spec == InitCompare /\ [][NextCompare]_vars

(***************************************************************************)
(* SpecSort: one arbitrary list, sorted (and sorted again).                *)
(***************************************************************************)
InitSort ==
    /\ f \in SeqUpTo(Fields, MaxSortLen)
    /\ rhs = <<>>
    /\ third = <<>>
    /\ InitRest

NextSort == DoSort

SpecSort == InitSort /\ [][NextSort]_vars

(***************************************************************************)
(* SpecCanon: two lists holding the same fields, with pairwise distinct    *)
(* names, in any two orders; sorted, then compared.                        *)
(***************************************************************************)
DistinctNames(s) == \A i, j \in 1..Len(s) : s[i].Name = s[j].Name => i = j

\* the orderings of the fields of s
Orderings(s) ==
    {[i \in 1..Len(s) |-> s[p[i]]] :
        p \in {q \in [1..Len(s) -> 1..Len(s)] :
                 \A i, j \in 1..Len(s) : q[i] = q[j] => i = j}}

InitCanon ==
    /\ f \in {s \in SeqUpTo(Fields, MaxSortLen) : DistinctNames(s)}
    /\ rhs \in Orderings(f)
    /\ third = <<>>
    /\ InitRest

NextCanon == DoSort \/ DoSortRhs \/ DoCompare \/ DoEquals

SpecCanon == InitCanon /\ [][NextCanon]_vars

(***************************************************************************)
(* SpecOrder: three arbitrary lists, compared.                             *)
(***************************************************************************)
OrdFields == {Field(nm, v) : nm \in {<<97>>, <<98>>}, v \in {IntValue(1), Null}}

InitOrder ==
    /\ f \in SeqUpTo(OrdFields, MaxOrdLen)
    /\ rhs \in SeqUpTo(OrdFields, MaxOrdLen)
    /\ third \in SeqUpTo(OrdFields, MaxOrdLen)
    /\ InitRest

NextOrder == DoCompareThird \/ DoLessThird

SpecOrder == InitOrder /\ [][NextOrder]_vars

(***************************************************************************)
(* SpecJSON: one arbitrary list, encoded, and documents decoded.           *)
(***************************************************************************)
JSONFields == {Field(nm, v) : nm \in Names, v \in Values \cup {Unsupported}}

InitJSON ==
    /\ f \in SeqUpTo(JSONFields, MaxJSONLen)
    /\ rhs = <<>>
    /\ third = <<>>
    /\ InitRest

NextJSON == DoToJSON \/ DoFromJSON

SpecJSON == InitJSON /\ [][NextJSON]_vars

(***************************************************************************)
(* Properties                                                              *)
(***************************************************************************)

\* C1: f.Equals(rhs) returns true if and only if f.Compare(rhs) returns 0,
\* for lists of any lengths, duplicate names allowed.
EqualsIffCompareZero ==
    /\ op = "Equals" => (boolRet <=> Compare(f, rhs) = 0)
    /\ op = "Compare" => (cmpRet = 0 <=> Equals(f, rhs))

\* Equals answered true for two lists of two fields
WitnessEqualsTrue ==
    /\ op = "Equals"
    /\ boolRet
    /\ Len(f) = 2
    /\ Len(rhs) = 2

\* C2: f.Compare(rhs) = -rhs.Compare(f), also when one list is exhausted
\* before the other.
CompareAntisymmetric ==
    op = "Compare" => cmpRet = -Compare(rhs, f)

\* Compare answered 1 because rhs, the shorter list, was exhausted first
WitnessCompareExhausted ==
    /\ op = "Compare"
    /\ cmpRet = 1
    /\ Len(rhs) >= 1
    /\ Len(f) > Len(rhs)
    /\ Compare(SubSeq(f, 1, Len(rhs)), rhs) = 0

\* a is shorter than b, and at every position of a the names are equal and
\* the values compare equal
StrictPrefix(a, b) ==
    /\ Len(a) < Len(b)
    /\ \A i \in 1..Len(a) :
          /\ a[i].Name = b[i].Name
          /\ ValueCompare(a[i].Value, b[i].Value) = 0

\* C7: a strict prefix compares -1 against the longer list and the longer
\* list compares 1 against it; the empty list compares -1 against every
\* non-empty list.
PrefixComparesShorter ==
    op = "Compare" =>
        /\ StrictPrefix(f, rhs) => cmpRet = -1
        /\ StrictPrefix(rhs, f) => cmpRet = 1
        /\ (f = <<>> /\ rhs # <<>>) => cmpRet = -1

\* Compare was called on a non-empty list and a longer list that extends it
WitnessStrictPrefix ==
    /\ op = "Compare"
    /\ Len(f) >= 1
    /\ StrictPrefix(f, rhs)

\* number of positions of s holding the field x
Count(s, x) == Cardinality({i \in 1..Len(s) : s[i] = x})

\* the fields of s named nm, in their order in s
Named(s, nm) ==
    LET test(x) == x.Name = nm
    IN  SelectSeq(s, test)

\* no field is followed, anywhere later, by a field of a smaller name
NonDecreasing(s) ==
    \A i, j \in 1..Len(s) : i < j => StringCompare(s[i].Name, s[j].Name) <= 0

\* C3: after Sort the list is a permutation of the original fields in
\* non-decreasing order of Name, fields of equal names keep their original
\* relative order, and on two elements the result is that of the general
\* stable sort.
SortIsStableSort ==
    sorts >= 1 =>
        /\ Len(f) = Len(orig)
        /\ \A x \in Fields : Count(f, x) = Count(orig, x)
        /\ NonDecreasing(f)
        /\ \A nm \in Names : Named(f, nm) = Named(orig, nm)
        /\ Len(orig) = 2 => f = SliceStable(orig)

\* Sort reordered a list of three fields, two of them with the same name and
\* different values
WitnessSortReordered ==
    /\ sorts >= 1
    /\ Len(f) = 3
    /\ f # orig
    /\ \E i, j \in 1..3 : f[i].Name = f[j].Name /\ f[i].Value # f[j].Value

\* C4: a second Sort leaves the list exactly as the first Sort left it.
SortIdempotent ==
    sorts >= 2 => f = prev

\* Sort was called a second time on a list the first call had reordered
WitnessSortedTwice ==
    /\ sorts >= 2
    /\ f # orig
    /\ Len(f) = 3

\* C9: two lists holding the same fields with pairwise distinct names, in
\* any two orders, compare 0 and are Equals once both have been sorted.
SortedListsCompareEqual ==
    (sorts >= 1 /\ rsorts >= 1) =>
        /\ op = "Compare" => cmpRet = 0
        /\ op = "Equals" => boolRet

\* Compare was called after both sorts, on three fields that the caller had
\* given in two different orders, neither sorted
WitnessCanonCompared ==
    /\ sorts >= 1
    /\ rsorts >= 1
    /\ op = "Compare"
    /\ Len(f) = 3
    /\ orig # rorig
    /\ orig # f
    /\ rorig # rhs

\* C10: Compare is transitive and answers -1, 0 or 1 for every pair:
\* f <= rhs and rhs <= third give f.Compare(third) <= 0, and f < rhs and
\* rhs < third give f.Less(third).
CompareTransitive ==
    /\ op = "CompareThird" =>
          /\ cmpRet \in {-1, 0, 1}
          /\ (Compare(f, rhs) <= 0 /\ Compare(rhs, third) <= 0) => cmpRet <= 0
    /\ op = "LessThird" =>
          ((Compare(f, rhs) = -1 /\ Compare(rhs, third) = -1) => boolRet)

\* Less answered true for the ends of a strictly ascending chain in which a
\* list is exhausted
WitnessChain ==
    /\ op = "LessThird"
    /\ boolRet
    /\ Compare(f, rhs) = -1
    /\ Compare(rhs, third) = -1
    /\ Len(rhs) < Len(f)
    /\ Len(rhs) < Len(third)

\* the JSON text of one member
Member(x) == EncodeString(x.Name) \o <<58>> \o EncodeValue(x.Value)

\* the members of s, in order, with a ',' between consecutive ones
RECURSIVE Members(_)
Members(s) ==
    IF s = <<>> THEN <<>>
    ELSE IF Len(s) = 1 THEN Member(s[1])
    ELSE Member(s[1]) \o <<44>> \o Members(Tail(s))

\* C5: decoding the bytes FieldListToJSON produced succeeds and yields a
\* list that Equals the encoded one, with as many fields, in the same order.
RoundTrip ==
    (op = "FromJSON" /\ toRet = "nil" /\ input = w) =>
        /\ fromRet.err = "nil"
        /\ Len(fromRet.fields) = Len(f)
        /\ Equals(fromRet.fields, f)
        /\ \A i \in 1..Len(f) : fromRet.fields[i].Name = f[i].Name

\* the encoding of two fields of the same name, a name that needs an
\* escape, was decoded
WitnessRoundTrip ==
    /\ op = "FromJSON"
    /\ toRet = "nil"
    /\ input = w
    /\ Len(f) = 2
    /\ f[1].Name = <<97, 34>>
    /\ f[2].Name = <<97, 34>>
    /\ f[1].Value # f[2].Value

IsPrefix(a, b) == Len(a) <= Len(b) /\ a = SubSeq(b, 1, Len(a))

\* C6: an error comes with the nil list, however many fields were appended;
\* end-of-input at a value is "unexpected EOF"; end-of-input at a key ends
\* the call without error, returning the fields read so far.
FromJSONErrors ==
    op = "FromJSON" =>
        /\ fromRet.err # "nil" => fromRet.fields = <<>>
        /\ (fromRet.at = "value" /\ fromRet.signal = "EOF") =>
              fromRet.err = "unexpected EOF"
        /\ (fromRet.at = "key" /\ fromRet.signal = "EOF") =>
              /\ fromRet.err = "nil"
              /\ Len(fromRet.fields) = fromRet.appended
        /\ fromRet.err = "unexpected EOF" =>
              (fromRet.at = "value" /\ fromRet.signal = "EOF")
        /\ (fromRet.err = "nil" /\ toRet = "nil" /\ IsPrefix(input, w)) =>
              Equals(fromRet.fields, SubSeq(f, 1, Len(fromRet.fields)))

\* the input ended where the value of the second member was awaited
WitnessUnexpectedEOF ==
    /\ op = "FromJSON"
    /\ fromRet.err = "unexpected EOF"
    /\ fromRet.appended >= 1

\* C8: without a builder error FieldListToJSON emits '{', the members in the
\* list's order with ',' between and none after the last, and '}'; the
\* empty list gives "{}"; the list is left unchanged.
ToJSONExact ==
    toRet = "nil" =>
        /\ w = <<123>> \o Members(f) \o <<125>>
        /\ f = <<>> => w = <<123, 125>>
        /\ f = orig

\* a list of two fields was encoded
WitnessToJSON ==
    /\ op = "ToJSON"
    /\ toRet = "nil"
    /\ Len(f) = 2

====
